---- MODULE Spec2Model ----
(***************************************************************************)
(* Model of the asynchronous command-execution registry of asmblr_backend  *)
(* (src/asmblr_backend/api/commands.py): the module-level dict `commands`, *)
(* the request handlers execute / status / list_commands and the worker    *)
(* thread run_command.                                                     *)
(*                                                                         *)
(* Text (commands, keys, values) is a sequence of one-character strings.   *)
(* A JSON value is a record [type, val]: val is the text of a string, or   *)
(* the decimal text str() gives for a number.  A JSON object is            *)
(* [type |-> "dict", items |-> <<[key, value], ...>>] in insertion order.  *)
(***************************************************************************)
EXTENDS Integers, Sequences, FiniteSets, TLC

\* Number of asynchronous submissions explored (uuid4 values drawn).
MaxJobs == 2

\* Templates are made of at most MaxPieces pieces.
MaxPieces == 2

\* At most MaxLoad submissions in the specification of the load.
MaxLoad == 6

\* utils/config.py: MAX_CONCURRENT_COMMANDS, default 5; commands.py does not
\* read it.
MAX_CONCURRENT_COMMANDS == 5

\* subprocess.run(..., timeout=300) in run_command, timeout=60 in execute.
ASYNC_TIMEOUT == 300
SYNC_TIMEOUT == 60

\* utils/config.py: COMMAND_TIMEOUT, default 300; commands.py does not read it.
COMMAND_TIMEOUT == 300

\* ALLOWED_COMMANDS = None : every command is allowed.
None == [type |-> "null", val |-> <<>>]
ALLOWED_COMMANDS == None

StrV(s) == [type |-> "str", val |-> s]
IntV(s) == [type |-> "int", val |-> s]
DictV(its) == [type |-> "dict", items |-> its]
ListV(its) == [type |-> "list", items |-> its]

\* Python truthiness of a JSON value (`not cmd`).
Truthy(v) ==
    CASE v.type = "null" -> FALSE
      [] v.type = "str" -> v.val # <<>>
      [] v.type = "int" -> v.val # <<"0">>
      [] v.type = "bool" -> v.val = <<"T">>
      [] OTHER -> v.items # <<>>

\* str(value)
Str(v) == v.val

(***************************************************************************)
(* Parameter substitution: cmd.replace('{key}', str(value)) for each item. *)
(***************************************************************************)
RECURSIVE Replace(_, _, _)
Replace(s, old, new) ==
    IF Len(s) < Len(old) THEN s
    ELSE IF SubSeq(s, 1, Len(old)) = old
         THEN new \o Replace(SubSeq(s, Len(old) + 1, Len(s)), old, new)
         ELSE <<Head(s)>> \o Replace(Tail(s), old, new)

Placeholder(key) == <<"{">> \o key \o <<"}">>

RECURSIVE SubstituteItems(_, _)
SubstituteItems(text, its) ==
    IF its = <<>> THEN text
    ELSE SubstituteItems(Replace(text, Placeholder(its[1].key), Str(its[1].value)),
                         Tail(its))

\* The loop `for key, value in params.items(): cmd = cmd.replace(...)`.
\* Gives [ok |-> TRUE, cmd |-> value] or [ok |-> FALSE, error |-> text].
\* Variant: the template is expanded with str.format, which raises for a
\* brace that is left over.
Substitute_Format(cmd, params) ==
    IF params.type # "dict"
    THEN [ok |-> FALSE, error |-> "AttributeError: no attribute 'items'"]
    ELSE IF cmd.type # "str"
    THEN [ok |-> FALSE, error |-> "AttributeError: no attribute 'format'"]
    ELSE LET out == SubstituteItems(cmd.val, params.items)
         IN  IF \E i \in 1 .. Len(out) : out[i] \in {"{", "}"}
             THEN [ok |-> FALSE, error |-> "KeyError"]
             ELSE [ok |-> TRUE, cmd |-> StrV(out)]

Substitute(cmd, params) ==
    IF params.type # "dict"
    THEN [ok |-> FALSE, error |-> "AttributeError: no attribute 'items'"]
    ELSE IF params.items = <<>>
    THEN [ok |-> TRUE, cmd |-> cmd]
    ELSE IF cmd.type # "str"
    THEN [ok |-> FALSE, error |-> "AttributeError: no attribute 'replace'"]
    ELSE [ok |-> TRUE, cmd |-> StrV(SubstituteItems(cmd.val, params.items))]

(***************************************************************************)
(* Execution Engine: subprocess.run(cmd, shell=True, capture_output=True,  *)
(* text=True, timeout=t).  env is what the host does with the command: how *)
(* long it runs, whether running it raises, and what it prints.            *)
(***************************************************************************)
Envs ==
    { [duration |-> 1,   raises |-> FALSE, stdout |-> "ok", stderr |-> "",    returncode |-> 0],
      [duration |-> 1,   raises |-> FALSE, stdout |-> "",   stderr |-> "err", returncode |-> 1],
      [duration |-> 100, raises |-> FALSE, stdout |-> "ok", stderr |-> "",    returncode |-> 0],
      [duration |-> 400, raises |-> FALSE, stdout |-> "ok", stderr |-> "",    returncode |-> 0],
      [duration |-> 1,   raises |-> TRUE,  stdout |-> "",   stderr |-> "",    returncode |-> 0] }

Launchable(cmd) == cmd.type = "str"

subprocess_run(cmd, timeout, env) ==
    IF ~Launchable(cmd)
    THEN [kind |-> "exception", error |-> "TypeError"]
    ELSE IF env.raises
    THEN [kind |-> "exception", error |-> "OSError"]
    ELSE IF env.duration > timeout
    THEN [kind |-> "timeout"]
    ELSE [kind |-> "result", stdout |-> env.stdout, stderr |-> env.stderr,
          returncode |-> env.returncode]

(***************************************************************************)
(* dict operations on a job record and on the registry.                    *)
(***************************************************************************)
Update(rec, upd) ==
    [k \in DOMAIN rec \cup DOMAIN upd |-> IF k \in DOMAIN upd THEN upd[k] ELSE rec[k]]

SetItem(d, key, value) ==
    [k \in DOMAIN d \cup {key} |-> IF k = key THEN value ELSE d[k]]

(***************************************************************************)
(* _is_command_allowed: the first whitespace-separated word of the command *)
(* must be in the allow-list, unless the allow-list is None.               *)
(***************************************************************************)
IsSpace(c) == c \in {" ", "\t", "\n"}

RECURSIVE TakeWord(_)
TakeWord(s) ==
    IF s = <<>> \/ IsSpace(Head(s)) THEN <<>> ELSE <<Head(s)>> \o TakeWord(Tail(s))

RECURSIVE FirstWord(_)
FirstWord(s) ==
    IF s = <<>> THEN <<>>
    ELSE IF IsSpace(Head(s)) THEN FirstWord(Tail(s)) ELSE TakeWord(s)

\* Variant: the check is switched off and lets every command through.
InAllowList_Open(al, cmd) == TRUE

\* lines 26-31 for the allow-list al and a string cmd.
InAllowList(al, cmd) ==
    IF al = None THEN TRUE
    ELSE FirstWord(cmd.val) \in al.words

\* line 29: cmd.split() of a command that is no string raises AttributeError;
\* execute() does not catch it and the request is answered 500.
SplitRaises(al, cmd) == al # None /\ cmd.type # "str"

\* An allow-list a deployment sets in place of None (lines 19-21).
WhiteList == [type |-> "list", val |-> <<>>, words |-> {<<"e">>}]

(***************************************************************************)
(* Request bodies of POST /api/commands/execute.                           *)
(***************************************************************************)
Absent == [type |-> "absent", val |-> <<>>]
True == [type |-> "bool", val |-> <<"T">>]
False == [type |-> "bool", val |-> <<"F">>]

\* data.get(field, default)
Get(field, default) == IF field = Absent THEN default ELSE field

Template == <<"e", " ", "{", "k", "}">>

Mapping == DictV(<<[key |-> <<"k">>, value |-> StrV(<<"b">>)]>>)
NotMapping == ListV(<<StrV(<<"b">>)>>)

\* The request bodies explored: a template with its parameters, a params
\* value that is no mapping, a command that is no string, and commands that
\* are missing or empty; each asynchronous and synchronous.
Requests ==
    { [command |-> c, params |-> p, async |-> a] :
        c \in {StrV(Template)}, p \in {Mapping, NotMapping}, a \in {True, False, Absent} }
    \cup
    { [command |-> c, params |-> Absent, async |-> a] :
        c \in {IntV(<<"5">>), StrV(<<>>), Absent}, a \in {True, False} }

\* The request bodies explored when an allow-list is enforced: also a command
\* whose first word is not in the list.
NotAllowed == <<"x">>

\* A template whose first word is the placeholder itself.
Smuggle == <<"{", "k", "}", " ", "e">>

PolicyRequests ==
    Requests \cup
    { [command |-> StrV(NotAllowed), params |-> Absent, async |-> a] : a \in {True, False} }
    \cup
    { [command |-> StrV(Smuggle), params |-> Mapping, async |-> a] : a \in {True, False} }

\* utils/validation.py, validate_command_params: the check of 'command' that
\* the validation helper makes; execute() does not call the helper.
RECURSIVE Strip(_)
Strip(s) ==
    IF s = <<>> THEN <<>>
    ELSE IF IsSpace(Head(s)) THEN Strip(Tail(s))
    ELSE IF IsSpace(s[Len(s)]) THEN Strip(SubSeq(s, 1, Len(s) - 1))
    ELSE s

validate_command(field) ==
    /\ field # Absent
    /\ field.type = "str"
    /\ Strip(field.val) # <<>>

\* Identifiers a client may ask about: the issued ones and one never issued.
Ids == 1 .. (MaxJobs + 1)

Terminal == {"completed", "timeout", "error"}

VARIABLES
    commands,   \* the registry: command_id -> job record (a dict)
    keys,       \* insertion order of the registry's keys
    uuids,      \* number of uuid4 values drawn so far
    handler,    \* command_id -> the execute() call that created it
    thread,     \* command_id -> the run_command thread started for it
    resp,       \* the last HTTP response sent
    allowed     \* the module global ALLOWED_COMMANDS

vars == <<commands, keys, uuids, handler, thread, resp, allowed>>

NoResult == [kind |-> "none"]

\* resp is the response sent by the step just taken, NoResponse if it sent none.
NoResponse == [op |-> "none", id |-> 0, code |-> 0, body |-> <<>>]

Init ==
    /\ commands = <<>>
    /\ keys = <<>>
    /\ uuids = 0
    /\ handler = <<>>
    /\ thread = <<>>
    /\ resp = NoResponse
    /\ allowed = ALLOWED_COMMANDS

\* The module as a deployment runs it once ALLOWED_COMMANDS is set to a list.
PolicyInit ==
    /\ commands = <<>>
    /\ keys = <<>>
    /\ uuids = 0
    /\ handler = <<>>
    /\ thread = <<>>
    /\ resp = NoResponse
    /\ allowed = WhiteList

JsonResponse(op, code, body) == [op |-> op, id |-> 0, code |-> code, body |-> body]

(***************************************************************************)
(* run_command(command_id, cmd, params): the worker thread.                *)
(***************************************************************************)
\* Variant: the thread goes on without marking the job running.
RunCommand_SetRunning_Skipped(id) ==
    /\ id \in DOMAIN thread
    /\ thread[id].pc = "ready"
    /\ thread' = [thread EXCEPT ![id].pc = "running"]
    /\ UNCHANGED <<allowed, commands, keys, uuids, handler>>
    /\ resp' = NoResponse

\* Variant: the thread marks every pending job running, not only its own.
RunCommand_SetRunning_AllPending(id) ==
    /\ id \in DOMAIN thread
    /\ thread[id].pc = "ready"
    /\ commands' = [k \in DOMAIN commands |->
                       IF commands[k].status = "pending"
                       THEN SetItem(commands[k], "status", "running")
                       ELSE commands[k]]
    /\ thread' = [thread EXCEPT ![id].pc = "running"]
    /\ UNCHANGED <<allowed, keys, uuids, handler>>
    /\ resp' = NoResponse

\* line 37: commands[command_id]['status'] = 'running'
RunCommand_SetRunning(id) ==
    /\ id \in DOMAIN thread
    /\ thread[id].pc = "ready"
    /\ commands' = [commands EXCEPT ![id] = SetItem(@, "status", "running")]
    /\ thread' = [thread EXCEPT ![id].pc = "running"]
    /\ UNCHANGED <<allowed, keys, uuids, handler>>
    /\ resp' = NoResponse

\* Variant: `except Exception` placed before `except TimeoutExpired`, so a
\* timeout is recorded as an error.
Outcome_ExceptOrder(result) ==
    CASE result.kind = "result" ->
           [status |-> "completed", stdout |-> result.stdout,
            stderr |-> result.stderr, return_code |-> result.returncode]
      [] result.kind = "timeout" ->
           [status |-> "error", error |-> "Command timed out"]
      [] OTHER ->
           [status |-> "error", error |-> result.error]

\* Variant: no `except Exception` clause; the thread dies and the job stays running.
Outcome_Uncaught(result) ==
    CASE result.kind = "result" ->
           [status |-> "completed", stdout |-> result.stdout,
            stderr |-> result.stderr, return_code |-> result.returncode]
      [] result.kind = "timeout" ->
           [status |-> "timeout", error |-> "Command timed out"]
      [] OTHER ->
           [status |-> "running"]

\* Variant: the timeout handler also stores the (empty) output captured so far.
Outcome_PartialOutput(result) ==
    CASE result.kind = "result" ->
           [status |-> "completed", stdout |-> result.stdout,
            stderr |-> result.stderr, return_code |-> result.returncode]
      [] result.kind = "timeout" ->
           [status |-> "timeout", error |-> "Command timed out", stdout |-> "", stderr |-> ""]
      [] OTHER ->
           [status |-> "error", error |-> result.error]

\* Variant: a non-zero exit code is stored with an error text.
Outcome_ExitCodeError(result) ==
    CASE result.kind = "result" ->
           IF result.returncode = 0
           THEN [status |-> "completed", stdout |-> result.stdout,
                 stderr |-> result.stderr, return_code |-> result.returncode]
           ELSE [status |-> "completed", stdout |-> result.stdout,
                 stderr |-> result.stderr, return_code |-> result.returncode,
                 error |-> result.stderr]
      [] result.kind = "timeout" ->
           [status |-> "timeout", error |-> "Command timed out"]
      [] OTHER ->
           [status |-> "error", error |-> result.error]

\* Variant: a non-zero exit code is recorded as a failed job.
Outcome_NonZeroFails(result) ==
    CASE result.kind = "result" ->
           IF result.returncode = 0
           THEN [status |-> "completed", stdout |-> result.stdout,
                 stderr |-> result.stderr, return_code |-> result.returncode]
           ELSE [status |-> "error", error |-> result.stderr]
      [] result.kind = "timeout" ->
           [status |-> "timeout", error |-> "Command timed out"]
      [] OTHER ->
           [status |-> "error", error |-> result.error]

\* Variant: the status is written by an assignment of its own and the other
\* fields by a later write.
Outcome_StatusFirst(result) ==
    CASE result.kind = "result" -> [status |-> "completed"]
      [] result.kind = "timeout" -> [status |-> "timeout"]
      [] OTHER -> [status |-> "error"]

\* lines 45-54: the update of the job record for what subprocess.run gave.
Outcome(result) ==
    CASE result.kind = "result" ->
           [status |-> "completed", stdout |-> result.stdout,
            stderr |-> result.stderr, return_code |-> result.returncode]
      [] result.kind = "timeout" ->
           [status |-> "timeout", error |-> "Command timed out"]
      [] OTHER ->
           [status |-> "error", error |-> result.error]

\* Variant: the thread loops and runs the command again after recording.
Record_Retry(id, cmd, result) ==
    /\ commands' = [commands EXCEPT ![id] = Update(@, Outcome(result))]
    /\ thread' = [thread EXCEPT ![id] =
                    [pc |-> IF Launchable(cmd) THEN "executing" ELSE "done",
                     cmd |-> cmd, params |-> None, result |-> result]]

\* Variant: the thread also stores the command it executed in the record.
Record_StoresExecuted(id, cmd, result) ==
    /\ commands' = [commands EXCEPT ![id] =
                      Update(@, Update(Outcome(result), [command |-> cmd]))]
    /\ thread' = [thread EXCEPT ![id] =
                    [pc |-> "done", cmd |-> cmd, params |-> None, result |-> result]]

\* The thread ends: the record is updated and the locals are gone; what the
\* thread executed and what came of it are kept.
Record(id, cmd, result) ==
    /\ commands' = [commands EXCEPT ![id] = Update(@, Outcome(result))]
    /\ thread' = [thread EXCEPT ![id] =
                    [pc |-> "done", cmd |-> cmd, params |-> None, result |-> result]]

\* lines 40-43: substitute, then start the subprocess; an exception raised
\* by either goes to line 54.
RunCommand_Launch(id) ==
    /\ id \in DOMAIN thread
    /\ thread[id].pc = "running"
    /\ LET sub == Substitute(thread[id].cmd, thread[id].params)
       IN  IF ~sub.ok
           THEN Record(id, thread[id].cmd, [kind |-> "exception", error |-> sub.error])
           ELSE IF ~Launchable(sub.cmd)
           THEN \E env \in Envs :
                  Record(id, sub.cmd, subprocess_run(sub.cmd, ASYNC_TIMEOUT, env))
           ELSE /\ thread' = [thread EXCEPT ![id].pc = "executing", ![id].cmd = sub.cmd]
                /\ UNCHANGED commands
    /\ UNCHANGED <<allowed, keys, uuids, handler>>
    /\ resp' = NoResponse

\* lines 43-54: subprocess.run returns a result or raises, and the job
\* record is updated.
RunCommand_Finish(id) ==
    /\ id \in DOMAIN thread
    /\ thread[id].pc = "executing"
    /\ \E env \in Envs :
         Record(id, thread[id].cmd, subprocess_run(thread[id].cmd, ASYNC_TIMEOUT, env))
    /\ UNCHANGED <<allowed, keys, uuids, handler>>
    /\ resp' = NoResponse

(***************************************************************************)
(* execute(): POST /api/commands/execute                                   *)
(***************************************************************************)
Cmd(req) == Get(req.command, None)
Params(req) == Get(req.params, DictV(<<>>))
AsyncExec(req) == Get(req.async, False)

is_command_allowed(cmd) == InAllowList(allowed, cmd)

\* lines 70-75 for the allow-list al: "400", "403", "500" (line 29 raised) or
\* "accepted".
Dispatch(al, req) ==
    IF ~Truthy(Cmd(req)) THEN "400"
    ELSE IF SplitRaises(al, Cmd(req)) THEN "500"
    ELSE IF ~InAllowList(al, Cmd(req)) THEN "403"
    ELSE "accepted"

Accepted(req) == Dispatch(allowed, req) = "accepted"

\* The request bodies explored under the allow-list al.
RequestsUnder(al) == IF al = None THEN Requests ELSE PolicyRequests

AllowLists == {ALLOWED_COMMANDS, WhiteList}

SyncRequestsUnder ==
    [al \in AllowLists |->
        {req \in RequestsUnder(al) :
            Dispatch(al, req) = "accepted" /\ ~Truthy(AsyncExec(req))}]

AsyncRequestsUnder ==
    [al \in AllowLists |->
        {req \in RequestsUnder(al) :
            Dispatch(al, req) = "accepted" /\ Truthy(AsyncExec(req))}]

SyncRequests == SyncRequestsUnder[allowed]
AsyncRequests == AsyncRequestsUnder[allowed]

\* lines 70-75: 400 for a missing command, 403 for a command not allowed;
\* 500 is Flask's answer to the exception of line 29.
RejectResponse(al, req) ==
    CASE Dispatch(al, req) = "400" ->
           JsonResponse("execute", 400, [error |-> "Command is required"])
      [] Dispatch(al, req) = "403" ->
           JsonResponse("execute", 403, [error |-> "Command not in allowed whitelist"])
      [] OTHER ->
           JsonResponse("execute", 500, [error |-> "Internal server error"])

RejectResponsesUnder ==
    [al \in AllowLists |->
        {RejectResponse(al, req) :
            req \in {q \in RequestsUnder(al) : Dispatch(al, q) # "accepted"}}]

RejectResponses == RejectResponsesUnder[allowed]

\* Variant: the checks of lines 70-75 come after the insert of line 80.
Execute_Reject_AfterInsert ==
    /\ uuids < MaxJobs
    /\ \E r \in RejectResponses : resp' = r
    /\ commands' = SetItem(commands, uuids + 1, [command |-> None, status |-> "pending"])
    /\ keys' = Append(keys, uuids + 1)
    /\ uuids' = uuids + 1
    /\ UNCHANGED <<allowed, handler, thread>>

\* lines 70-75: the handler returns its answer before it has written anything.
Execute_Reject ==
    /\ \E r \in RejectResponses : resp' = r
    /\ UNCHANGED <<allowed, commands, keys, uuids, handler, thread>>

\* Variant: the generator gives the first identifier again once it is in
\* the registry.
uuid4_Repeating == IF keys = <<>> THEN uuids + 1 ELSE keys[1]

\* line 79: uuid.uuid4(), a fresh identifier at every call.
uuid4 == uuids + 1

\* Variant: the job record is not inserted by the handler.
Execute_Async_Create_NoInsert ==
    /\ uuids < MaxJobs
    /\ \E req \in AsyncRequests :
         handler' = SetItem(handler, uuid4,
                            [pc |-> "inserted", cmd |-> Cmd(req), params |-> Params(req)])
    /\ uuids' = uuids + 1
    /\ UNCHANGED <<allowed, commands, keys, thread>>
    /\ resp' = NoResponse

\* line 80: commands[command_id] = {'command': cmd, 'status': 'pending'}, an
\* item assignment: it puts the record under command_id whether or not the
\* key is there.
Insert(command_id, req) ==
    /\ commands' = SetItem(commands, command_id,
                           [command |-> Cmd(req), status |-> "pending"])
    /\ keys' = IF command_id \in DOMAIN commands THEN keys
               ELSE Append(keys, command_id)
    /\ handler' = SetItem(handler, command_id,
                          [pc |-> "inserted", cmd |-> Cmd(req),
                           params |-> Params(req)])

\* lines 65-80: an accepted asynchronous request inserts the pending job.
Execute_Async_Create ==
    /\ uuids < MaxJobs
    /\ \E req \in AsyncRequests : Insert(uuid4, req)
    /\ uuids' = uuids + 1
    /\ UNCHANGED <<allowed, thread>>
    /\ resp' = NoResponse

\* lines 82-84: threading.Thread(target=run_command, ...).start()
Execute_Async_Start(id) ==
    /\ id \in DOMAIN handler
    /\ handler[id].pc = "inserted"
    /\ thread' = SetItem(thread, id,
                         [pc |-> "ready", cmd |-> handler[id].cmd,
                          params |-> handler[id].params, result |-> NoResult])
    /\ handler' = [handler EXCEPT ![id] = [pc |-> "started", cmd |-> None, params |-> None]]
    /\ UNCHANGED <<allowed, commands, keys, uuids>>
    /\ resp' = NoResponse

\* line 86: return {'command_id': ..., 'status': 'pending'}
Execute_Async_Return(id) ==
    /\ id \in DOMAIN handler
    /\ handler[id].pc = "started"
    /\ resp' = JsonResponse("execute", 200, [command_id |-> id, status |-> "pending"])
    /\ handler' = [handler EXCEPT ![id].pc = "returned"]
    /\ UNCHANGED <<allowed, commands, keys, uuids, thread>>

\* Variant: `except Exception` comes before `except subprocess.TimeoutExpired`
\* in the synchronous path, so a timeout is answered 500.
SyncResponse_ExceptOrder(req, env) ==
    LET sub == Substitute(Cmd(req), Params(req))
    IN  IF ~sub.ok
        THEN JsonResponse("execute", 500, [error |-> sub.error])
        ELSE LET result == subprocess_run(sub.cmd, SYNC_TIMEOUT, env)
             IN  CASE result.kind = "result" ->
                        JsonResponse("execute", 200,
                                     [stdout |-> result.stdout, stderr |-> result.stderr,
                                      return_code |-> result.returncode])
                   [] result.kind = "timeout" ->
                        JsonResponse("execute", 500, [error |-> "Command timed out"])
                   [] OTHER ->
                        JsonResponse("execute", 500, [error |-> result.error])

\* lines 94-103: the answer of the synchronous path for what subprocess.run
\* or the substitution gave.
SyncAnswer(result) ==
    CASE result.kind = "result" ->
           JsonResponse("execute", 200,
                        [stdout |-> result.stdout, stderr |-> result.stderr,
                         return_code |-> result.returncode])
      [] result.kind = "timeout" ->
           JsonResponse("execute", 408, [error |-> "Command timed out"])
      [] OTHER ->
           JsonResponse("execute", 500, [error |-> result.error])

\* Variant: the synchronous path takes its timeout from Config.COMMAND_TIMEOUT.
SyncResponse_ConfigTimeout(req, env) ==
    LET sub == Substitute(Cmd(req), Params(req))
    IN  IF ~sub.ok
        THEN SyncAnswer([kind |-> "exception", error |-> sub.error])
        ELSE SyncAnswer(subprocess_run(sub.cmd, COMMAND_TIMEOUT, env))

\* lines 88-103: synchronous execution.
SyncResponse(req, env) ==
    LET sub == Substitute(Cmd(req), Params(req))
    IN  IF ~sub.ok
        THEN SyncAnswer([kind |-> "exception", error |-> sub.error])
        ELSE SyncAnswer(subprocess_run(sub.cmd, SYNC_TIMEOUT, env))

SyncResponsesUnder ==
    [al \in AllowLists |-> {SyncResponse(req, env) : req \in SyncRequestsUnder[al], env \in Envs}]

SyncResponses == SyncResponsesUnder[allowed]

\* Variant: the synchronous path also files its result in the registry.
Execute_Sync_Stored ==
    /\ \E r \in SyncResponses :
         /\ resp' = r
         /\ commands' = SetItem(commands, 0, [command |-> None, status |-> "completed"])
         /\ keys' = IF 0 \in DOMAIN commands THEN keys ELSE Append(keys, 0)
    /\ UNCHANGED <<allowed, uuids, handler, thread>>

Execute_Sync ==
    /\ \E r \in SyncResponses : resp' = r
    /\ UNCHANGED <<allowed, commands, keys, uuids, handler, thread>>

(***************************************************************************)
(* status(command_id) and list_commands()                                  *)
(***************************************************************************)
\* Variant: the registry behaves like a defaultdict; a lookup of an unknown
\* identifier answers with an empty pending job.
StatusResponse_Default(id) ==
    [op |-> "status", id |-> id, code |-> 200,
     body |-> IF id \in DOMAIN commands THEN commands[id]
              ELSE [command |-> None, status |-> "pending"]]

\* Variant: the answer is served from a copy of the record taken when the
\* job was created.
StatusResponse_Cached(id) ==
    IF id \notin DOMAIN commands
    THEN [op |-> "status", id |-> id, code |-> 404, body |-> [error |-> "Command not found"]]
    ELSE [op |-> "status", id |-> id, code |-> 200,
          body |-> [command |-> commands[id].command, status |-> "pending"]]

\* lines 106-112: one lookup in the dict; the writes of run_command (item
\* assignment, dict.update) are atomic under the interpreter lock.
StatusResponse(id) ==
    IF id \notin DOMAIN commands
    THEN [op |-> "status", id |-> id, code |-> 404, body |-> [error |-> "Command not found"]]
    ELSE [op |-> "status", id |-> id, code |-> 200, body |-> commands[id]]

Status(id) ==
    /\ resp' = StatusResponse(id)
    /\ UNCHANGED <<allowed, commands, keys, uuids, handler, thread>>

\* Variant: the listing leaves out the jobs that have finished.
ListResponse_Unfinished ==
    JsonResponse("list", 200,
                 [ids |-> SelectSeq(keys, LAMBDA id : commands[id].status \notin Terminal)])

ListResponse == JsonResponse("list", 200, [ids |-> keys])

ListCommands ==
    /\ resp' = ListResponse
    /\ UNCHANGED <<allowed, commands, keys, uuids, handler, thread>>

Next ==
    \/ Execute_Reject
    \/ Execute_Sync
    \/ Execute_Async_Create
    \/ \E id \in Ids : Execute_Async_Start(id)
    \/ \E id \in Ids : Execute_Async_Return(id)
    \/ \E id \in Ids : RunCommand_SetRunning(id)
    \/ \E id \in Ids : RunCommand_Launch(id)
    \/ \E id \in Ids : RunCommand_Finish(id)
    \/ \E id \in Ids : Status(id)
    \/ ListCommands

Spec == Init /\ [][Next]_vars

\* A step of some request handler past its insert or of some started thread.
Progress ==
    \E id \in Ids :
        \/ Execute_Async_Start(id)
        \/ Execute_Async_Return(id)
        \/ RunCommand_SetRunning(id)
        \/ RunCommand_Launch(id)
        \/ RunCommand_Finish(id)

\* The scheduler does not stop while a handler or a thread can take a step,
\* and subprocess.run comes back (a result, TimeoutExpired after 300 s, or an
\* exception).
Fairness == WF_vars(Progress)

\* The submissions and the threads they start.  The requests that only
\* answer (rejected and synchronous submissions, status, list) write nothing
\* but resp; Spec has them.
JobNext ==
    \/ Execute_Async_Create
    \/ \E id \in Ids : Execute_Async_Start(id)
    \/ \E id \in Ids : Execute_Async_Return(id)
    \/ \E id \in Ids : RunCommand_SetRunning(id)
    \/ \E id \in Ids : RunCommand_Launch(id)
    \/ \E id \in Ids : RunCommand_Finish(id)

FairSpec == Init /\ [][JobNext]_vars /\ Fairness

\* lines 79-80 when uuid.uuid4() is not taken to be fresh: the value drawn is
\* a new one or one that an earlier submission got.  Only identifiers whose
\* earlier submission has answered and whose thread has ended are drawn
\* again, so that handler and thread still say who works on the record.
Execute_Async_Create_Drawn ==
    /\ uuids < MaxJobs
    /\ \E req \in AsyncRequests, command_id \in DOMAIN commands \cup {uuid4} :
         /\ command_id \in DOMAIN commands =>
                /\ handler[command_id].pc = "returned"
                /\ thread[command_id].pc = "done"
         /\ Insert(command_id, req)
    /\ uuids' = uuids + 1
    /\ UNCHANGED <<allowed, thread>>
    /\ resp' = NoResponse

DrawnNext ==
    \/ Execute_Async_Create_Drawn
    \/ \E id \in Ids : Execute_Async_Start(id)
    \/ \E id \in Ids : Execute_Async_Return(id)
    \/ \E id \in Ids : RunCommand_SetRunning(id)
    \/ \E id \in Ids : RunCommand_Launch(id)
    \/ \E id \in Ids : RunCommand_Finish(id)
    \/ \E id \in Ids : Status(id)

\* The submissions and their threads when uuid4 may repeat a value.
DrawnSpec == Init /\ [][DrawnNext]_vars

\* The templates and mappings explored for the substitution of lines 39-41:
\* templates of placeholders of the keys a and b, of a name c that is no key,
\* of plain text and of single braces; mappings of up to two keys in either
\* insertion order, with values that are plain, empty, a number, or the text
\* of a placeholder.
Pieces ==
    { <<"{", "a", "}">>, <<"{", "b", "}">>, <<"{", "c", "}">>, <<"x">>, <<"{">>, <<"}">> }

RECURSIVE TemplatesOf(_)
TemplatesOf(n) ==
    IF n = 0 THEN {<<>>}
    ELSE LET shorter == TemplatesOf(n - 1)
         IN  shorter \cup {t \o p : t \in shorter, p \in Pieces}

Templates == TemplatesOf(MaxPieces) \ {<<>>}

SubstKeys == {<<"a">>, <<"b">>}

SubstValues ==
    { StrV(<<"y">>), StrV(<<>>), IntV(<<"5">>),
      StrV(<<"{", "a", "}">>), StrV(<<"{", "b", "}">>) }

SubstItems == {[key |-> k, value |-> v] : k \in SubstKeys, v \in SubstValues}

Mappings ==
    {<<>>} \cup {<<i>> : i \in SubstItems}
           \cup {m \in {<<i, j>> : i \in SubstItems, j \in SubstItems} : m[1].key # m[2].key}

SubstRequests ==
    { [command |-> StrV(t), params |-> DictV(m), async |-> True] :
        t \in Templates, m \in Mappings }

\* lines 65-80 for one asynchronous request out of SubstRequests.
Subst_Create ==
    /\ uuids = 0
    /\ \E req \in SubstRequests : Insert(uuid4, req)
    /\ uuids' = uuids + 1
    /\ UNCHANGED <<allowed, thread>>
    /\ resp' = NoResponse

SubstNext ==
    \/ Subst_Create
    \/ \E id \in Ids : Execute_Async_Start(id)
    \/ \E id \in Ids : Execute_Async_Return(id)
    \/ \E id \in Ids : RunCommand_SetRunning(id)
    \/ \E id \in Ids : RunCommand_Launch(id)
    \/ \E id \in Ids : RunCommand_Finish(id)

\* One asynchronous job for each template and mapping: its thread makes the
\* substitution of lines 39-41 and executes what comes out.
SubstSpec == Init /\ [][SubstNext]_vars

\* Submissions of one long command, up to the point where each thread has
\* marked its job running.
LoadRequest == [command |-> StrV(Template), params |-> Mapping, async |-> True]

LoadIds == 1 .. MaxLoad

\* The jobs that are pending or running.
Unfinished == {id \in DOMAIN commands : commands[id].status \in {"pending", "running"}}

\* Variant: a submission is refused while MAX_CONCURRENT_COMMANDS jobs are
\* pending or running.
Load_Create_Limited ==
    /\ uuids < MaxLoad
    /\ Cardinality(Unfinished) < MAX_CONCURRENT_COMMANDS
    /\ Insert(uuid4, LoadRequest)
    /\ uuids' = uuids + 1
    /\ UNCHANGED <<allowed, thread>>
    /\ resp' = NoResponse

\* lines 65-80 for LoadRequest: nothing is tested but the request itself.
Load_Create ==
    /\ uuids < MaxLoad
    /\ Insert(uuid4, LoadRequest)
    /\ uuids' = uuids + 1
    /\ UNCHANGED <<allowed, thread>>
    /\ resp' = NoResponse

LoadNext ==
    \/ Load_Create
    \/ \E id \in LoadIds : Execute_Async_Start(id)
    \/ \E id \in LoadIds : Execute_Async_Return(id)
    \/ \E id \in LoadIds : RunCommand_SetRunning(id)

LoadSpec == Init /\ [][LoadNext]_vars

\* Requests that also carry a timeout field, which execute() never reads
\* (lines 65-68 take command, params and async only).
BudgetRequests ==
    { [command |-> StrV(Template), params |-> Mapping, async |-> a, timeout |-> t] :
        a \in {True, False}, t \in {Absent, IntV(<<"1">>), IntV(<<"1", "0", "0", "0">>)} }

\* lines 88-103 for a request of BudgetRequests; the answer is kept together
\* with the request and with what the subprocess did.
Budget_Sync ==
    /\ \E req \in BudgetRequests, env \in Envs :
         /\ Dispatch(allowed, req) = "accepted"
         /\ ~Truthy(AsyncExec(req))
         /\ resp' = [op |-> "execute", id |-> 0, code |-> SyncResponse(req, env).code,
                      body |-> SyncResponse(req, env).body, req |-> req, env |-> env]
    /\ UNCHANGED <<allowed, commands, keys, uuids, handler, thread>>

\* lines 65-80 for one asynchronous request of BudgetRequests.
Budget_Create ==
    /\ uuids = 0
    /\ \E req \in BudgetRequests :
         /\ Dispatch(allowed, req) = "accepted"
         /\ Truthy(AsyncExec(req))
         /\ Insert(uuid4, req)
    /\ uuids' = uuids + 1
    /\ UNCHANGED <<allowed, thread>>
    /\ resp' = NoResponse

\* lines 43-54, as RunCommand_Finish; what the subprocess did is kept.
Budget_Finish(id) ==
    /\ id \in DOMAIN thread
    /\ thread[id].pc = "executing"
    /\ \E env \in Envs :
         /\ Record(id, thread[id].cmd, subprocess_run(thread[id].cmd, ASYNC_TIMEOUT, env))
         /\ resp' = [op |-> "none", id |-> id, code |-> 0, body |-> <<>>, env |-> env]
    /\ UNCHANGED <<allowed, keys, uuids, handler>>

BudgetNext ==
    \/ Budget_Sync
    \/ Budget_Create
    \/ \E id \in Ids : Execute_Async_Start(id)
    \/ \E id \in Ids : Execute_Async_Return(id)
    \/ \E id \in Ids : RunCommand_SetRunning(id)
    \/ \E id \in Ids : RunCommand_Launch(id)
    \/ \E id \in Ids : Budget_Finish(id)

\* One job and any number of synchronous requests, each execution kept with
\* the time its subprocess takes.
BudgetSpec == Init /\ [][BudgetNext]_vars

\* The same handlers and threads with an allow-list enforced.
PolicySpec == PolicyInit /\ [][Next]_vars

(***************************************************************************)
(* Properties                                                              *)
(***************************************************************************)
\* Identifiers whose asynchronous submission has answered, and those whose
\* submission has inserted the job and not answered yet.
Issued == {id \in DOMAIN handler : handler[id].pc = "returned"}
InFlight == {id \in DOMAIN handler : handler[id].pc # "returned"}

StatusOf(id) == commands[id].status

Transitions ==
    { <<"pending", "running">>, <<"running", "completed">>,
      <<"running", "timeout">>, <<"running", "error">> }

OutputFields == {"stdout", "stderr", "return_code"}

IsAsyncAnswer(r) ==
    r.op = "execute" /\ r.code = 200 /\ "command_id" \in DOMAIN r.body

\* C1: the status of a job only changes pending -> running, running ->
\* completed, running -> timeout or running -> error; a new job starts
\* pending and no job is removed.
C1_StatusTransitions ==
    [][ /\ \A id \in DOMAIN commands :
             /\ id \in DOMAIN commands'
             /\ \/ commands'[id].status = commands[id].status
                \/ <<commands[id].status, commands'[id].status>> \in Transitions
        /\ \A id \in DOMAIN commands' \ DOMAIN commands :
             commands'[id].status = "pending" ]_vars

\* C1 witness: one job has gone pending -> running -> completed while another
\* has gone pending -> running -> timeout.
C1_Witness ==
    \E a, b \in DOMAIN commands :
        /\ StatusOf(a) = "completed"
        /\ StatusOf(b) = "timeout"

\* C2: under fair scheduling every job in the registry eventually has a
\* terminal status, and a thread that ended on an exception (params that is
\* no mapping, a command that is no string, a failing subprocess.run) has
\* recorded the job as error.
C2_EventuallyTerminal ==
    /\ \A id \in Ids :
         (id \in DOMAIN commands) ~> (id \in DOMAIN commands /\ StatusOf(id) \in Terminal)
    /\ [](\A id \in DOMAIN thread :
            (thread[id].pc = "done" /\ thread[id].result.kind = "exception")
                => StatusOf(id) = "error")

\* C2 witness: a job whose params was no mapping and a job whose command was
\* no string have both ended in error.
C2_Witness ==
    \E a, b \in DOMAIN commands :
        /\ StatusOf(a) = "error" /\ commands[a].command.type = "str"
        /\ commands[a].error = "AttributeError: no attribute 'items'"
        /\ StatusOf(b) = "error" /\ commands[b].command.type = "int"

\* C3: the pending job is in the registry before its thread exists and before
\* the submission answers: every thread's job exists, status(id) of an
\* answered identifier is 200, and the answer is {command_id, status: pending}
\* whatever the job's status is by then.
C3_InsertedBeforeStartAndAnswer ==
    /\ [] /\ DOMAIN thread \subseteq DOMAIN commands
          /\ \A id \in DOMAIN handler :
               handler[id].pc \in {"started", "returned"} =>
                   id \in DOMAIN commands /\ id \in DOMAIN thread
          /\ \A id \in Issued : StatusResponse(id).code = 200
          /\ (resp.op = "status" /\ resp.id \in Issued) => resp.code = 200
          /\ IsAsyncAnswer(resp) =>
               /\ resp.body.status = "pending"
               /\ resp.body.command_id \in Issued
               /\ resp.body.command_id \in DOMAIN commands
    /\ [][ \A id \in DOMAIN commands' \ DOMAIN commands :
             /\ commands'[id].status = "pending"
             /\ id \notin DOMAIN thread'
             /\ id \notin Issued' ]_vars

\* C3 witness: a submission has just answered while its thread has not yet
\* brought the job to a terminal status.
C3_Witness ==
    /\ IsAsyncAnswer(resp)
    /\ resp.body.command_id \in DOMAIN commands
    /\ StatusOf(resp.body.command_id) \in {"pending", "running"}

\* C4: a synchronous submission leaves the registry as it is, whatever its
\* outcome, and the registry holds exactly the identifiers handed out by
\* asynchronous submissions: the answered ones, and none but the answered ones
\* once every asynchronous submission has answered.
C4_SyncLeavesRegistry ==
    /\ [][ resp' \in SyncResponses => (commands' = commands /\ keys' = keys) ]_vars
    /\ [] /\ DOMAIN commands = Issued \cup InFlight
          /\ InFlight = {} => DOMAIN commands = Issued

\* C4 witness: a synchronous submission has timed out (408) while the registry
\* holds one job, the one an asynchronous submission answered.
C4_Witness ==
    /\ resp \in SyncResponses
    /\ resp.code = 408
    /\ Issued # {}
    /\ DOMAIN commands = Issued

\* C5: a job record has stdout, stderr and return_code all together or not at
\* all, and has them exactly when its status is completed.
C5_OutputIffCompleted ==
    \A id \in DOMAIN commands :
        LET present == OutputFields \cap DOMAIN commands[id]
        IN  /\ present \in {{}, OutputFields}
            /\ (present = OutputFields) <=> (StatusOf(id) = "completed")

\* C5 witness: a completed job with its output next to a timed-out job.
C5_Witness ==
    \E a, b \in DOMAIN commands :
        /\ StatusOf(a) = "completed" /\ OutputFields \subseteq DOMAIN commands[a]
        /\ StatusOf(b) = "timeout"

\* C6: a job record has an error field exactly when its status is timeout or
\* error.
C6_ErrorIffFailed ==
    \A id \in DOMAIN commands :
        ("error" \in DOMAIN commands[id]) <=> (StatusOf(id) \in {"timeout", "error"})

\* C6 witness: a job in error with its error text next to a job completed with
\* a non-zero exit code.
C6_Witness ==
    \E a, b \in DOMAIN commands :
        /\ StatusOf(a) = "error" /\ "error" \in DOMAIN commands[a]
        /\ StatusOf(b) = "completed" /\ commands[b].return_code = 1

\* C7: once a job has a terminal status its record never changes, so every
\* step leaves the answer of status(id) as it was, and a status answer always
\* is the record.
C7_TerminalImmutable ==
    /\ [][ \A id \in DOMAIN commands :
             StatusOf(id) \in Terminal =>
                 /\ id \in DOMAIN commands'
                 /\ commands'[id] = commands[id]
                 /\ StatusResponse(id)' = StatusResponse(id) ]_vars
    /\ []((resp.op = "status" /\ resp.code = 200) => resp.body = commands[resp.id])

\* C7 witness: status(id) has answered for a completed job while another
\* job's thread is still at work.
C7_Witness ==
    /\ resp.op = "status"
    /\ resp.code = 200
    /\ resp.body.status = "completed"
    /\ \E other \in DOMAIN thread : other # resp.id /\ thread[other].pc = "executing"

\* C8: when subprocess.run of a job's thread times out, the job goes from
\* running to timeout in that step and is timeout in every later state.
C8_TimeoutNeverCompleted ==
    /\ [][ \A id \in DOMAIN thread :
             (thread[id].result.kind # "timeout" /\ thread'[id].result.kind = "timeout")
                 => (StatusOf(id) = "running" /\ commands'[id].status = "timeout") ]_vars
    /\ [](\A id \in DOMAIN thread :
            thread[id].result.kind = "timeout" => StatusOf(id) = "timeout")
    /\ [][ \A id \in DOMAIN commands :
             StatusOf(id) = "timeout" => commands'[id].status = "timeout" ]_vars

\* C8 witness: a job whose command outlasted the 300 s is recorded as timeout.
C8_Witness ==
    \E id \in DOMAIN thread :
        /\ thread[id].result.kind = "timeout"
        /\ StatusOf(id) = "timeout"

\* C9: status(id) answers 404 for every identifier no asynchronous submission
\* has handed out, and a status call leaves the registry as it is.
C9_UnknownIdNotFound ==
    /\ [] /\ \A id \in Ids : id \notin DOMAIN handler => StatusResponse(id).code = 404
          /\ (resp.op = "status" /\ resp.id \notin DOMAIN handler) =>
                 (resp.code = 404 /\ resp.id \notin DOMAIN commands)
    /\ [][ resp'.op = "status" => (commands' = commands /\ keys' = keys) ]_vars

\* C9 witness: status of a never-issued identifier has answered 404 while the
\* registry holds jobs.
C9_Witness ==
    /\ resp.op = "status"
    /\ resp.code = 404
    /\ resp.id \notin DOMAIN handler
    /\ Issued # {}

Range(seq) == {seq[i] : i \in 1 .. Len(seq)}

\* C10 as stated: list() holds exactly the identifiers of the submissions
\* that have answered.
C10_ListIsExactlyAnswered ==
    resp.op = "list" =>
        /\ Len(resp.body.ids) = Cardinality(Issued)
        /\ Range(resp.body.ids) = Issued

\* C10: list() holds pairwise distinct identifiers, each with a status answer
\* of 200: those of every submission that has answered, and besides them only
\* those of submissions that have inserted their job and not answered yet; so
\* exactly the N answered ones when no submission is in between.
C10_ListAnsweredAndInFlight ==
    resp.op = "list" =>
        LET ids == resp.body.ids
        IN  /\ Cardinality(Range(ids)) = Len(ids)
            /\ Issued \subseteq Range(ids)
            /\ Range(ids) \subseteq Issued \cup InFlight
            /\ \A id \in Range(ids) : StatusResponse(id).code = 200
            /\ InFlight = {} => Len(ids) = Cardinality(Issued)

\* C10 witness: list() has answered with the two identifiers of two answered
\* submissions whose threads are at different stages.
C10_Witness ==
    /\ resp.op = "list"
    /\ Len(resp.body.ids) = 2
    /\ Cardinality(Issued) = 2
    /\ \E a, b \in Issued : StatusOf(a) \in Terminal /\ StatusOf(b) = "running"

\* C11: the registry only grows: a step never removes an identifier, the
\* identifiers keep their order of insertion, an identifier keeps the command
\* of the submission that created it, and no step creates a job under an
\* identifier that a submission already has.
C11_RegistryOnlyGrows ==
    [][ /\ \A id \in DOMAIN commands :
             /\ id \in DOMAIN commands'
             /\ commands'[id].command = commands[id].command
        /\ Len(keys) <= Len(keys')
        /\ SubSeq(keys', 1, Len(keys)) = keys
        /\ \A id \in DOMAIN handler :
             handler'[id].pc = "inserted" => handler[id].pc = "inserted"
      ]_vars

\* A job is being created while an earlier job is finished and still there.
C11_Witness ==
    \E id1 \in DOMAIN commands, id2 \in DOMAIN commands :
        /\ id1 # id2
        /\ commands[id1].status \in Terminal
        /\ handler[id2].pc = "inserted"

\* C12: a step that creates a job under an identifier that is already in the
\* registry leaves the record of that identifier as it was: the record is
\* neither replaced nor set back to pending.
C12_CreateKeepsExistingRecord ==
    [][ \A id \in DOMAIN commands :
            (handler'[id].pc = "inserted" /\ handler[id].pc # "inserted")
                => commands'[id] = commands[id]
      ]_vars

\* C13: a submission is accepted only if its command is a non-empty string:
\* every job in the registry was submitted with such a command, and every
\* answer of execute() other than 400 is the answer to such a command.
C13_OnlyNonEmptyStringAccepted ==
    /\ \A id \in DOMAIN commands : validate_command(commands[id].command)
    /\ (resp.op = "execute" /\ resp.code # 400) =>
           \/ IsAsyncAnswer(resp)
           \/ resp \in { SyncResponse(req, env) :
                            req \in {q \in SyncRequests : validate_command(q.command)},
                            env \in Envs }

\* C14: a step that answers a submission with 400 or with 403 changes
\* nothing: the registry, its key order, the identifiers drawn, the handlers
\* and the threads (and with them the subprocesses) are as before.
C14_RejectedHasNoEffect ==
    [][ (resp'.op = "execute" /\ resp'.code \in {400, 403})
            => UNCHANGED <<commands, keys, uuids, handler, thread>>
      ]_vars

\* A submission was just refused by the allow-list while a job is running.
C14_Witness ==
    /\ resp.op = "execute"
    /\ resp.code = 403
    /\ \E id \in DOMAIN commands : commands[id].status = "running"

\* What the subprocess of a synchronous request gives in the environment env.
SyncResult(req, env) ==
    subprocess_run(Substitute(Cmd(req), Params(req)).cmd, SYNC_TIMEOUT, env)

\* The accepted synchronous requests and environments in which the command
\* is executed and subprocess.run comes back with an exit code.
SyncExits ==
    { <<req, env>> \in (UNION {SyncRequestsUnder[al] : al \in AllowLists}) \X Envs :
        /\ Substitute(Cmd(req), Params(req)).ok
        /\ SyncResult(req, env).kind = "result" }

\* The synchronous answer to each of them is 200 with stdout, stderr and the
\* exit code as return_code.
SyncExitsAnswered200 ==
    \A p \in SyncExits :
        SyncResponse(p[1], p[2]) =
            JsonResponse("execute", 200,
                         [stdout |-> p[2].stdout, stderr |-> p[2].stderr,
                          return_code |-> p[2].returncode])

\* C15: an exit code, zero or not, is a successful execution: the
\* synchronous answer is 200 with stdout, stderr and that return_code, and a
\* thread whose subprocess gave an exit code leaves its job completed with
\* that return_code and without an error field.
C15_ExitCodeIsSuccess ==
    /\ SyncExitsAnswered200
    /\ (resp.op = "execute" /\ "return_code" \in DOMAIN resp.body) => resp.code = 200
    /\ \A id \in DOMAIN thread :
          thread[id].result.kind = "result" =>
              /\ commands[id].status = "completed"
              /\ commands[id].return_code = thread[id].result.returncode
              /\ commands[id].stdout = thread[id].result.stdout
              /\ commands[id].stderr = thread[id].result.stderr
              /\ "error" \notin DOMAIN commands[id]

\* A synchronous request was just answered with exit code 1 and a job has
\* finished with exit code 1.
C15_Witness ==
    /\ resp.op = "execute"
    /\ resp.code = 200
    /\ "return_code" \in DOMAIN resp.body
    /\ resp.body.return_code = 1
    /\ \E id \in DOMAIN thread :
          /\ thread[id].result.kind = "result"
          /\ thread[id].result.returncode = 1
          /\ commands[id].status = "completed"

\* The accepted synchronous requests with every environment.
SyncRuns == (UNION {SyncRequestsUnder[al] : al \in AllowLists}) \X Envs

\* The synchronous answer is 408 exactly when subprocess.run raised
\* TimeoutExpired, and 500 exactly when anything else was raised.
SyncTimeoutApart ==
    \A p \in SyncRuns :
        LET sub == Substitute(Cmd(p[1]), Params(p[1]))
            timedOut == sub.ok /\ SyncResult(p[1], p[2]).kind = "timeout"
            raised == ~sub.ok \/ SyncResult(p[1], p[2]).kind = "exception"
        IN  /\ timedOut <=> SyncResponse(p[1], p[2]).code = 408
            /\ raised <=> SyncResponse(p[1], p[2]).code = 500

\* C16: a timeout is reported apart from every other failure: the
\* synchronous answer is 408 for a timeout and 500 for another exception, a
\* finished thread leaves status timeout exactly when its subprocess timed
\* out and status error exactly when something else was raised, and the
\* timeout text goes with 408, never with 500.
C16_TimeoutReportedApart ==
    /\ SyncTimeoutApart
    /\ (resp.op = "execute" /\ resp.code = 408) => resp.body = [error |-> "Command timed out"]
    /\ (resp.op = "execute" /\ resp.code = 500) => resp.body.error # "Command timed out"
    /\ \A id \in DOMAIN thread :
          thread[id].pc = "done" =>
              /\ thread[id].result.kind = "timeout" <=> commands[id].status = "timeout"
              /\ thread[id].result.kind = "exception" <=> commands[id].status = "error"

\* A synchronous request was just answered 408 while one job has timed out
\* and another has failed.
C16_Witness ==
    /\ resp.op = "execute"
    /\ resp.code = 408
    /\ \E id1 \in DOMAIN commands, id2 \in DOMAIN commands :
          /\ commands[id1].status = "timeout"
          /\ commands[id2].status = "error"

\* The template with every placeholder of a key of the mapping replaced, in
\* one pass from left to right, by the string form of the key's value.
RECURSIVE Expand(_, _)
Expand(text, its) ==
    IF text = <<>> THEN <<>>
    ELSE LET hits == {i \in 1 .. Len(its) :
                        /\ Len(Placeholder(its[i].key)) <= Len(text)
                        /\ SubSeq(text, 1, Len(Placeholder(its[i].key)))
                               = Placeholder(its[i].key)}
         IN  IF hits = {}
             THEN <<Head(text)>> \o Expand(Tail(text), its)
             ELSE LET i == CHOOSE i \in hits : TRUE
                  IN  Str(its[i].value)
                      \o Expand(SubSeq(text, Len(Placeholder(its[i].key)) + 1, Len(text)), its)

\* The threads that have substituted and are executing, with the template
\* they were given, their mapping and the command they execute.
Executing == {id \in DOMAIN thread : thread[id].pc = "executing"}
TemplateOf(id) == commands[id].command.val
MappingOf(id) == thread[id].params.items
ExecutedBy(id) == thread[id].cmd.val

\* C17: the command a thread executes is its template with every {key} of
\* the mapping replaced by the string form of the key's value and every other
\* text, the {token} of a name that is no key included, left as it is.
C17_EveryPlaceholderReplaced ==
    \A id \in Executing : ExecutedBy(id) = Expand(TemplateOf(id), MappingOf(id))

\* C18: the text of the value is inserted as it is: where the template is
\* the placeholder of a key, the command executed is the string form of that
\* key's value, whatever braces or placeholders of other keys it contains.
C18_ValueInsertedVerbatim ==
    \A id \in Executing :
        \A i \in 1 .. Len(MappingOf(id)) :
            TemplateOf(id) = Placeholder(MappingOf(id)[i].key)
                => ExecutedBy(id) = Str(MappingOf(id)[i].value)

\* The placeholder ph occurs in text.
Occurs(ph, text) ==
    \E i \in 1 .. Len(text) :
        /\ i + Len(ph) - 1 <= Len(text)
        /\ SubSeq(text, i, i + Len(ph) - 1) = ph

NoKeyOccurs(text, its) ==
    \A i \in 1 .. Len(its) : ~Occurs(Placeholder(its[i].key), text)

\* C19: when no key of the mapping occurs as {key} in the template, the
\* substitution of a thread raises nothing and the command it goes on to
\* execute is the template.
C19_NoOccurringKeyIsIdentity ==
    [][ \A id \in DOMAIN thread :
            ( /\ thread[id].pc = "running"
              /\ thread'[id].pc # "running"
              /\ NoKeyOccurs(TemplateOf(id), MappingOf(id)) )
            => /\ thread'[id].pc = "executing"
               /\ thread'[id].cmd = commands[id].command
      ]_vars

\* A thread executes a template with the token of a name that is no key,
\* under a mapping of two keys none of which occurs in it.
C19_Witness ==
    \E id \in Executing :
        /\ Len(MappingOf(id)) = 2
        /\ NoKeyOccurs(TemplateOf(id), MappingOf(id))
        /\ Occurs(<<"{", "c", "}">>, TemplateOf(id))
        /\ ExecutedBy(id) = TemplateOf(id)

\* How far a status is along pending, running, terminal, and how far the
\* status updates that a thread has finished are.
Rank(status) ==
    CASE status = "pending" -> 0
      [] status = "running" -> 1
      [] OTHER -> 2

UpdatesFinished(pc) ==
    CASE pc = "ready" -> 0
      [] pc \in {"running", "executing"} -> 1
      [] OTHER -> 2

\* C20: a status call made once a thread has finished a status update
\* answers that status or a later one; an answer is the record as it is when
\* the call is served, and the status of a record never goes back from one
\* step to the next, so successive calls never see an earlier status after a
\* later one.
C20_StatusReadsMonotone ==
    /\ [](\A id \in DOMAIN thread :
             /\ StatusResponse(id).code = 200
             /\ Rank(StatusResponse(id).body.status) >= UpdatesFinished(thread[id].pc))
    /\ [](resp.op = "status" /\ resp.code = 200 => resp.body = commands[resp.id])
    /\ [][ \A id \in DOMAIN commands :
              Rank(commands'[id].status) >= Rank(commands[id].status) ]_vars

\* A status call was just answered running for a job whose thread has set
\* it running and is executing, while another job is already finished.
C20_Witness ==
    /\ resp.op = "status"
    /\ resp.code = 200
    /\ resp.body.status = "running"
    /\ thread[resp.id].pc = "executing"
    /\ \E id \in DOMAIN commands : commands[id].status \in Terminal

\* A record that is whole: the fields that go with its status and no others.
Whole(rec) ==
    DOMAIN rec =
        CASE rec.status = "completed" -> {"command", "status"} \cup OutputFields
          [] rec.status \in {"timeout", "error"} -> {"command", "status", "error"}
          [] OTHER -> {"command", "status"}

\* The states the record of id has had up to now: pending, then running once
\* its thread has set it, then what the thread wrote at its end.
HadStates(id) ==
    LET pending == [command |-> commands[id].command, status |-> "pending"]
        running == [command |-> commands[id].command, status |-> "running"]
    IN  IF StatusOf(id) = "pending" THEN {pending}
        ELSE IF StatusOf(id) = "running" THEN {pending, running}
        ELSE {pending, running, commands[id]}

\* C21: the record that a status call answers with is never torn: it is
\* whole (completed with stdout, stderr and return_code, timeout or error
\* with the error field, pending or running with neither) and it is a state
\* the record has had.
C21_SnapshotNeverTorn ==
    (resp.op = "status" /\ resp.code = 200) =>
        /\ Whole(resp.body)
        /\ resp.body \in HadStates(resp.id)

\* A status call was just answered with a running record while the thread
\* of that job is between setting it running and starting the subprocess.
C21_Witness ==
    /\ resp.op = "status"
    /\ resp.code = 200
    /\ resp.body.status = "running"
    /\ thread[resp.id].pc = "running"

\* The jobs whose record a step changes.
Written == {id \in DOMAIN commands : commands'[id] # commands[id]}

\* C22: after its creation a record is written only by the thread started
\* for its job: a step changes the record of at most one job, that job's
\* thread takes the step, and a step that answers a status or list call or
\* begins a submission changes no record that exists.
C22_OnlyOwnWorkerWrites ==
    [][ /\ \A id \in Written :
              /\ id \in DOMAIN thread
              /\ thread'[id] # thread[id]
              /\ Written = {id}
        /\ resp'.op \in {"status", "list"} => (commands' = commands /\ keys' = keys)
        /\ handler' # handler => Written = {}
      ]_vars

\* The thread of one job has written its terminal status while another job,
\* whose thread has started, is still pending.
C22_Witness ==
    \E a \in DOMAIN thread, b \in DOMAIN thread :
        /\ a # b
        /\ thread[a].pc = "done"
        /\ StatusOf(a) \in Terminal
        /\ thread[b].pc = "ready"
        /\ StatusOf(b) = "pending"

\* The commands that the accepted synchronous requests execute when the
\* allow-list al is enforced.
SyncExecuted(al) ==
    { Substitute(Cmd(req), Params(req)).cmd :
        req \in {q \in SyncRequestsUnder[al] : Substitute(Cmd(q), Params(q)).ok} }

\* Under the allow-list WhiteList every one of them is a string whose first
\* word is in the list.
SyncExecutedAllowed ==
    \A cmd \in SyncExecuted(WhiteList) :
        cmd.type = "str" /\ FirstWord(cmd.val) \in WhiteList.words

\* C23: with an allow-list enforced, every command that a thread executes or
\* has executed, and every command that a synchronous request executes, is a
\* string whose first whitespace-separated word is in the allow-list, the
\* parameters substituted.
C23_ExecutedFirstWordAllowed ==
    allowed # None =>
        /\ SyncExecutedAllowed
        /\ \A id \in DOMAIN thread :
              (thread[id].pc = "executing" \/ thread[id].result.kind \in {"result", "timeout"})
                  => /\ thread[id].cmd.type = "str"
                     /\ FirstWord(thread[id].cmd.val) \in allowed.words

\* With the allow-list enforced a thread executes a command that the
\* substitution has changed.
C23_Witness ==
    /\ allowed = WhiteList
    /\ \E id \in DOMAIN thread :
          /\ thread[id].pc = "executing"
          /\ thread[id].cmd # commands[id].command

\* C24: the thread of a job has set the status to running before it
\* substitutes and before its subprocess runs: while the thread substitutes
\* or its subprocess executes, the status is running; while the status is
\* pending the thread, if started, has done nothing yet; and once a terminal
\* status is recorded the thread has ended.
C24_RunningWhileExecuting ==
    \A id \in DOMAIN commands :
        /\ (id \in DOMAIN thread /\ thread[id].pc \in {"running", "executing"})
               => StatusOf(id) = "running"
        /\ StatusOf(id) = "pending" => (id \in DOMAIN thread => thread[id].pc = "ready")
        /\ StatusOf(id) \in Terminal => (id \in DOMAIN thread /\ thread[id].pc = "done")

\* The subprocess of one job executes, its status running, while another
\* job is still pending with its thread started.
C24_Witness ==
    \E a \in DOMAIN thread, b \in DOMAIN thread :
        /\ thread[a].pc = "executing"
        /\ StatusOf(a) = "running"
        /\ thread[b].pc = "ready"
        /\ StatusOf(b) = "pending"

\* The steps a thread and a handler can take in their code: forward only.
ThreadSteps ==
    { <<"ready", "running">>, <<"running", "executing">>, <<"running", "done">>,
      <<"executing", "done">> }

HandlerSteps == { <<"inserted", "started">>, <<"started", "returned">> }

\* C25: an accepted submission runs its command at most once: a handler
\* that is past its insert has started exactly the thread of its job, a
\* handler and a thread only go forward in their code (so the subprocess
\* is entered at most once), the step that writes a terminal status ends
\* the thread, an ended thread does and writes nothing more, and a
\* synchronous answer starts no thread.
C25_AtMostOnce ==
    /\ [](\A id \in DOMAIN handler : (handler[id].pc # "inserted") <=> (id \in DOMAIN thread))
    /\ [][ /\ \A id \in DOMAIN thread :
                  /\ thread'[id].pc # thread[id].pc =>
                         /\ <<thread[id].pc, thread'[id].pc>> \in ThreadSteps
                         /\ (commands'[id].status \in Terminal) <=> (thread'[id].pc = "done")
                  /\ thread'[id].pc = thread[id].pc => commands'[id] = commands[id]
           /\ \A id \in DOMAIN handler :
                 handler'[id].pc # handler[id].pc =>
                     <<handler[id].pc, handler'[id].pc>> \in HandlerSteps
           /\ (resp'.op = "execute" /\ ~IsAsyncAnswer(resp')) => thread' = thread
         ]_vars

\* Two submissions have answered; the thread of one has ended with a
\* timeout recorded and the thread of the other has ended with an error.
C25_Witness ==
    \E a \in DOMAIN thread, b \in DOMAIN thread :
        /\ handler[a].pc = "returned" /\ handler[b].pc = "returned"
        /\ thread[a].pc = "done" /\ StatusOf(a) = "timeout"
        /\ thread[b].pc = "done" /\ StatusOf(b) = "error"

\* The record of a finished job corresponds to a synchronous answer: 200
\* with completed and the same output, 408 with timeout, 500 with error, the
\* error text the same.
Corresponds(answer, rec) ==
    CASE answer.code = 200 ->
           /\ rec.status = "completed"
           /\ rec.stdout = answer.body.stdout
           /\ rec.stderr = answer.body.stderr
           /\ rec.return_code = answer.body.return_code
      [] answer.code = 408 ->
           rec.status = "timeout" /\ rec.error = answer.body.error
      [] answer.code = 500 ->
           rec.status = "error" /\ rec.error = answer.body.error
      [] OTHER -> FALSE

\* C26: the two paths are equivalent on one submission: a thread that
\* executes runs the command that the synchronous path substitutes for the
\* same template and mapping, and the record a finished thread leaves
\* corresponds to the synchronous answer for the outcome the thread had.
C26_SyncAsyncEquivalent ==
    \A id \in DOMAIN thread :
        /\ thread[id].pc = "executing" =>
               LET sub == Substitute(commands[id].command, thread[id].params)
               IN  sub.ok /\ thread[id].cmd = sub.cmd
        /\ thread[id].pc = "done" =>
               Corresponds(SyncAnswer(thread[id].result), commands[id])

\* A synchronous request was just answered 500 for a substitution that
\* failed, and a job has ended in error with the same text.
C26_Witness ==
    /\ resp.op = "execute"
    /\ resp.code = 500
    /\ \E id \in DOMAIN thread :
          /\ thread[id].pc = "done"
          /\ StatusOf(id) = "error"
          /\ commands[id].error = resp.body.error

\* The items of a mapping in the opposite order.
RECURSIVE Reversed(_)
Reversed(its) == IF its = <<>> THEN <<>> ELSE Append(Reversed(Tail(its)), Head(its))

\* C27: the command a thread executes is the same whatever order the keys
\* of its mapping are applied in: applying them in the opposite order to the
\* template gives the command the thread executes.
C27_OrderIndependent ==
    \A id \in Executing :
        ExecutedBy(id) = SubstituteItems(TemplateOf(id), Reversed(MappingOf(id)))

\* C28: the command field of a record is the template as submitted: it is
\* what the handler got while the handler holds it, what the thread got
\* until the thread substitutes, and no step changes it afterwards.
C28_CommandIsTemplate ==
    /\ [](\A id \in DOMAIN commands :
             /\ handler[id].pc = "inserted" => commands[id].command = handler[id].cmd
             /\ (id \in DOMAIN thread /\ thread[id].pc \in {"ready", "running"})
                    => commands[id].command = thread[id].cmd)
    /\ [][ \A id \in DOMAIN commands : commands'[id].command = commands[id].command ]_vars

\* A job has completed after executing a command that differs from its
\* template, and its record still holds the template.
C28_Witness ==
    \E id \in DOMAIN thread :
        /\ thread[id].pc = "done"
        /\ StatusOf(id) = "completed"
        /\ thread[id].cmd # commands[id].command
        /\ commands[id].command = StrV(Template)

\* C29: a valid asynchronous submission is accepted whatever the number of
\* jobs pending or running: as long as the explored number of submissions is
\* not used up the submission can insert its job, every handler that has
\* inserted can start its thread at once, and every started thread can mark
\* its job running at once.
C29_NoAdmissionLimit ==
    /\ uuids < MaxLoad => ENABLED Load_Create
    /\ \A id \in DOMAIN handler :
          handler[id].pc = "inserted" => ENABLED Execute_Async_Start(id)
    /\ \A id \in DOMAIN thread :
          thread[id].pc = "ready" => ENABLED RunCommand_SetRunning(id)

\* More than MAX_CONCURRENT_COMMANDS jobs are running at the same time.
C29_Witness ==
    Cardinality({id \in DOMAIN commands : StatusOf(id) = "running"}) > MAX_CONCURRENT_COMMANDS

\* C30: the budget of a synchronous execution is 60 seconds and that of a
\* thread 300 seconds, the first smaller than the second, whatever timeout
\* field the request carries: a subprocess that starts is answered 408
\* exactly when it takes more than 60 seconds and 200 otherwise, and leaves
\* a job in timeout exactly when it takes more than 300 seconds and
\* completed otherwise.
C30_BudgetsFixed ==
    /\ SYNC_TIMEOUT = 60
    /\ ASYNC_TIMEOUT = 300
    /\ SYNC_TIMEOUT < ASYNC_TIMEOUT
    /\ ("env" \in DOMAIN resp /\ ~resp.env.raises) =>
          IF resp.op = "execute"
          THEN /\ resp.code = 408 <=> resp.env.duration > 60
               /\ resp.code = 200 <=> resp.env.duration <= 60
          ELSE /\ StatusOf(resp.id) = "timeout" <=> resp.env.duration > 300
               /\ StatusOf(resp.id) = "completed" <=> resp.env.duration <= 300

\* A synchronous request that asks for a timeout of 1000 was just answered
\* 408 for a subprocess of 100 seconds, and a job has completed.
C30_Witness ==
    /\ "req" \in DOMAIN resp
    /\ resp.req.timeout = IntV(<<"1", "0", "0", "0">>)
    /\ resp.env.duration = 100
    /\ resp.code = 408
    /\ \E id \in DOMAIN commands : StatusOf(id) = "completed"

====
